---- MODULE Spec2Model ----
(***************************************************************************)
(* Model of erpbiometric_sync/doctype/biometric_data_staging:              *)
(* process_biometric_logs (the reconciliation pass over the Pending rows   *)
(* of "Biometric Data Staging"), its two entry points, and                 *)
(* send_exceptional_report.                                                *)
(*                                                                         *)
(* The document store is the pair (staging, checkins).  A pass is run by   *)
(* a background worker; every store call of the pass (get_all, get_value,  *)
(* exists, insert, set_value, commit) is one step, so that steps of two    *)
(* workers interleave exactly where two jobs on the queue can interleave.  *)
(***************************************************************************)
EXTENDS Integers, Sequences, FiniteSets, Bags, TLC

VARIABLES
    staging,     \* tabBiometric Data Staging: sequence of rows, name = index
    checkins,    \* tabEmployee Checkin: bag of documents
    pass,        \* per worker: the frame of process_biometric_logs
    runs,        \* number of passes started so far
    users,       \* tabUser joined with tabHas Role
    sender,      \* email_id of the default outgoing Email Account, or None
    report       \* effects of the last send_exceptional_report invocation

vars == <<staging, checkins, pass, runs, users, sender, report>>

---------------------------------------------------------------------------
(* Bounds *)

MaxLogs == 2     \* staged rows in the store
MaxRuns == 2     \* passes started in one behaviour

---------------------------------------------------------------------------
(* Values *)

None == "None"

Workers == {"w1", "w2"}

AttendanceDeviceIds == {"A100", "UNKNOWN"}
Timestamps == {"T1", "T2"}
PunchTypes == {"IN", "OUT"}
DeviceIds == {"D1"}

\* tabEmployee: name -> attendance_device_id
EmployeeTable == [E1 |-> "A100", E2 |-> "A200"]

Employees == DOMAIN EmployeeTable

\* DATE(timestamp)
DateOf(timestamp) == IF timestamp = "T1" THEN "Day1" ELSE "Day2"

Days == {"Day1", "Day2"}

StagingRow(adid, ts, punch, dev, status) ==
    [attendance_device_id |-> adid, timestamp |-> ts, punch_type |-> punch,
     device_id |-> dev, status |-> status]

PendingRows ==
    {StagingRow(a, t, k, d, "Pending") :
        a \in AttendanceDeviceIds, t \in Timestamps, k \in PunchTypes, d \in DeviceIds}

\* the rows of the specifications with failing calls or overlapping passes: the
\* punch type plays no part in the control flow, so one value is drawn
PendingRowsIn ==
    {r \in PendingRows : r.punch_type = "IN"}

\* Checkins that exist before the first pass (entered by hand or by another tool).
InitialCheckins ==
    {[employee |-> "E1", time |-> "T1", log_type |-> "IN", device_id |-> "D0"],
     [employee |-> "E2", time |-> "T1", log_type |-> "IN", device_id |-> "D0"]}

InitialCheckinsE1 == {c \in InitialCheckins : c.employee = "E1"}

SeqsUpTo(S, n) == UNION {[1..k -> S] : k \in 0..n}

Names == DOMAIN staging

---------------------------------------------------------------------------
(* Document-store calls used by process_biometric_logs *)

\* get_all without the status filter
PendingNamesUnfiltered(stg) == DOMAIN stg

\* frappe.get_all("Biometric Data Staging", filters={"status": "Pending"}, fields=[...])
\* the set of rows returned, each with the five fields asked for
PendingNames(stg) == {n \in DOMAIN stg : stg[n].status = "Pending"}

LogOf(stg, n) ==
    [name |-> n,
     attendance_device_id |-> stg[n].attendance_device_id,
     timestamp |-> stg[n].timestamp,
     punch_type |-> stg[n].punch_type,
     device_id |-> stg[n].device_id]

\* every order in which the store may return a set of rows
Orders(S) ==
    {s \in [1..Cardinality(S) -> S] : \A i, j \in DOMAIN s : i # j => s[i] # s[j]}

GetAll(stg) ==
    {[i \in DOMAIN o |-> LogOf(stg, o[i])] : o \in Orders(PendingNames(stg))}

\* frappe.get_value("Employee", {"attendance_device_id": adid}, "name")
GetValueEmployee(adid) ==
    LET found == {e \in Employees : EmployeeTable[e] = adid}
    IN  IF found = {} THEN None ELSE CHOOSE e \in found : TRUE

\* exists with the timestamp compared to the wrong column
ExistsWrongField(chk, employee, time) ==
    \E c \in BagToSet(chk) : c.employee = employee /\ c.device_id = time

\* frappe.db.exists("Employee Checkin", {"employee": employee, "time": time})
Exists(chk, employee, time) ==
    \E c \in BagToSet(chk) : c.employee = employee /\ c.time = time

\* the document with log_type taken from the wrong field of the log
NewCheckinDeviceAsType(employee, log) ==
    [employee |-> employee, time |-> log.timestamp,
     log_type |-> log.device_id, device_id |-> log.device_id]

\* the document built by frappe.get_doc({...}) for a log
NewCheckin(employee, log) ==
    [employee |-> employee, time |-> log.timestamp,
     log_type |-> log.punch_type, device_id |-> log.device_id]

\* checkin.insert(ignore_permissions=True)
InsertDoc(chk, doc) == chk (+) SetToBag({doc})

\* set_value keyed by the device identifier of the row instead of its name
SetValueByDevice(stg, name, value) ==
    [n \in DOMAIN stg |->
        IF stg[n].attendance_device_id = stg[name].attendance_device_id
        THEN [stg[n] EXCEPT !.status = value] ELSE stg[n]]

\* frappe.db.set_value("Biometric Data Staging", name, "status", value)
SetValue(stg, name, value) == [stg EXCEPT ![name].status = value]

---------------------------------------------------------------------------
(* The frame of one pass *)

IdlePass ==
    [pc |-> "idle", via |-> None, unsynced_logs |-> <<>>, i |-> 1,
     employee |-> None, errors |-> <<>>, created |-> <<>>, commits |-> 0,
     result |-> None,
     start |-> [staging |-> <<>>, checkins |-> EmptyBag]]

Free(p) == pass[p].pc \in {"idle", "done", "failed"}

CurrentLog(p) == pass[p].unsynced_logs[pass[p].i]

\* the loop with frappe.db.commit() indented into its body
NextLogCommitting(f) ==
    [f EXCEPT !.i = f.i + 1,
              !.commits = f.commits + 1,
              !.pc = IF f.i + 1 > Len(f.unsynced_logs) THEN "commit" ELSE "lookup"]

\* end of one iteration of "for log in unsynced_logs" (also reached by "continue")
NextLog(f) ==
    [f EXCEPT !.i = f.i + 1,
              !.pc = IF f.i + 1 > Len(f.unsynced_logs) THEN "commit" ELSE "lookup"]

ProcessingErr(f, step) ==
    [title |-> "Biometric Log Processing Error",
     name |-> f.unsynced_logs[f.i].name, step |-> step]

ScheduledJobErr ==
    [title |-> "Scheduled Job Error", name |-> 0, step |-> "read"]

UnchangedConfig == UNCHANGED <<users, sender, report>>

---------------------------------------------------------------------------
(* Entry points *)

\* enqueue_process_biometric_logs: the job is put on the 'long' queue and worker
\* p picks it up
Enqueue(p) ==
    /\ Free(p)
    /\ runs < MaxRuns
    /\ pass' = [pass EXCEPT ![p] = [IdlePass EXCEPT !.pc = "read", !.via = "enqueue"]]
    /\ runs' = runs + 1
    /\ UNCHANGED <<staging, checkins>>
    /\ UnchangedConfig

\* execute_scheduled_job: the hourly trigger calls process_biometric_logs inside
\* its try block
ExecuteScheduledJob(p) ==
    /\ Free(p)
    /\ runs < MaxRuns
    /\ pass' = [pass EXCEPT ![p] = [IdlePass EXCEPT !.pc = "read", !.via = "scheduled"]]
    /\ runs' = runs + 1
    /\ UNCHANGED <<staging, checkins>>
    /\ UnchangedConfig

---------------------------------------------------------------------------
(* process_biometric_logs, one store call per step *)

\* unsynced_logs = frappe.get_all(...)
ReadPending(p) ==
    /\ pass[p].pc = "read"
    /\ \E logs \in GetAll(staging) :
         pass' = [pass EXCEPT ![p].unsynced_logs = logs,
                              ![p].i = 1,
                              ![p].start = [staging |-> staging, checkins |-> checkins],
                              ![p].pc = IF logs = <<>> THEN "commit" ELSE "lookup"]
    /\ UNCHANGED <<staging, checkins, runs>>
    /\ UnchangedConfig

\* frappe.get_all raises: nothing in process_biometric_logs catches it; the
\* wrapper execute_scheduled_job logs it and re-raises
ReadPendingFails(p) ==
    /\ pass[p].pc = "read"
    /\ pass' = [pass EXCEPT ![p].pc = "failed",
                            ![p].errors = IF pass[p].via = "scheduled"
                                          THEN Append(@, ScheduledJobErr) ELSE @]
    /\ UNCHANGED <<staging, checkins, runs>>
    /\ UnchangedConfig

\* the lookup with the "if employee" test left out
LookupWithoutElse(p) ==
    /\ pass[p].pc = "lookup"
    /\ pass' = [pass EXCEPT ![p].employee =
                                GetValueEmployee(CurrentLog(p).attendance_device_id),
                            ![p].pc = "dupcheck"]
    /\ UNCHANGED <<staging, checkins, runs>>
    /\ UnchangedConfig

\* employee = frappe.get_value("Employee", ...); if employee: ... else: ...
Lookup(p) ==
    /\ pass[p].pc = "lookup"
    /\ LET employee == GetValueEmployee(CurrentLog(p).attendance_device_id)
       IN  pass' = [pass EXCEPT ![p].employee = employee,
                                ![p].pc = IF employee # None THEN "dupcheck" ELSE "setign"]
    /\ UNCHANGED <<staging, checkins, runs>>
    /\ UnchangedConfig

\* the pass without its duplicate check
DuplicateCheckSkipped(p) ==
    /\ pass[p].pc = "dupcheck"
    /\ pass' = [pass EXCEPT ![p].pc = "insert"]
    /\ UNCHANGED <<staging, checkins, runs>>
    /\ UnchangedConfig

\* duplicate_check = frappe.db.exists(...); if duplicate_check: ...
DuplicateCheck(p) ==
    /\ pass[p].pc = "dupcheck"
    /\ pass' = [pass EXCEPT ![p].pc =
                   IF Exists(checkins, pass[p].employee, CurrentLog(p).timestamp)
                   THEN "setdup" ELSE "insert"]
    /\ UNCHANGED <<staging, checkins, runs>>
    /\ UnchangedConfig

\* the duplicate branch replacing the checkin it found by the one of the log
SetDuplicateOverwrites(p) ==
    /\ pass[p].pc = "setdup"
    /\ staging' = SetValue(staging, CurrentLog(p).name, "Duplicate")
    /\ LET found == {c \in BagToSet(checkins) :
                        c.employee = pass[p].employee /\ c.time = CurrentLog(p).timestamp}
       IN  checkins' = InsertDoc(checkins (-) SetToBag(found),
                                 NewCheckin(pass[p].employee, CurrentLog(p)))
    /\ pass' = [pass EXCEPT ![p] = NextLog(@)]
    /\ UNCHANGED runs
    /\ UnchangedConfig

\* the duplicate branch writing the wrong status
SetDuplicateAsProcessed(p) ==
    /\ pass[p].pc = "setdup"
    /\ staging' = SetValue(staging, CurrentLog(p).name, "Processed")
    /\ pass' = [pass EXCEPT ![p] = NextLog(@)]
    /\ UNCHANGED <<checkins, runs>>
    /\ UnchangedConfig

\* frappe.db.set_value(..., "status", "Duplicate"); continue
SetDuplicate(p) ==
    /\ pass[p].pc = "setdup"
    /\ staging' = SetValue(staging, CurrentLog(p).name, "Duplicate")
    /\ pass' = [pass EXCEPT ![p] = NextLog(@)]
    /\ UNCHANGED <<checkins, runs>>
    /\ UnchangedConfig

\* the insert under a store that refuses a second (employee, time)
InsertCheckinUnique(p) ==
    /\ pass[p].pc = "insert"
    /\ ~Exists(checkins, pass[p].employee, CurrentLog(p).timestamp)
    /\ LET doc == NewCheckin(pass[p].employee, CurrentLog(p))
       IN  /\ checkins' = InsertDoc(checkins, doc)
           /\ pass' = [pass EXCEPT ![p].created =
                                       Append(@, [name |-> CurrentLog(p).name, doc |-> doc]),
                                   ![p].pc = "setproc"]
    /\ UNCHANGED <<staging, runs>>
    /\ UnchangedConfig

\* checkin = frappe.get_doc({...}); checkin.insert(ignore_permissions=True)
InsertCheckin(p) ==
    /\ pass[p].pc = "insert"
    /\ LET doc == NewCheckin(pass[p].employee, CurrentLog(p))
       IN  /\ checkins' = InsertDoc(checkins, doc)
           /\ pass' = [pass EXCEPT ![p].created =
                                       Append(@, [name |-> CurrentLog(p).name, doc |-> doc]),
                                   ![p].pc = "setproc"]
    /\ UNCHANGED <<staging, runs>>
    /\ UnchangedConfig

\* frappe.db.set_value(..., "status", "Processed")
SetProcessed(p) ==
    /\ pass[p].pc = "setproc"
    /\ staging' = SetValue(staging, CurrentLog(p).name, "Processed")
    /\ pass' = [pass EXCEPT ![p] = NextLog(@)]
    /\ UNCHANGED <<checkins, runs>>
    /\ UnchangedConfig

\* the else branch without its status write
SetIgnoredForgotten(p) ==
    /\ pass[p].pc = "setign"
    /\ pass' = [pass EXCEPT ![p] = NextLog(@)]
    /\ UNCHANGED <<staging, checkins, runs>>
    /\ UnchangedConfig

\* frappe.db.set_value(..., "status", "Ignored")
SetIgnored(p) ==
    /\ pass[p].pc = "setign"
    /\ staging' = SetValue(staging, CurrentLog(p).name, "Ignored")
    /\ pass' = [pass EXCEPT ![p] = NextLog(@)]
    /\ UNCHANGED <<checkins, runs>>
    /\ UnchangedConfig

RecordSteps == {"lookup", "dupcheck", "setdup", "insert", "setproc", "setign"}

\* the handler leaving the loop instead of going on with the next log
CatchAndAbort(f) ==
    [f EXCEPT !.errors = Append(@, ProcessingErr(f, f.pc)),
              !.i = Len(f.unsynced_logs) + 1, !.pc = "commit"]

\* the loop body without its try/except: the exception leaves the pass
RecordFailsEscapes(p) ==
    /\ pass[p].pc \in RecordSteps
    /\ pass' = [pass EXCEPT ![p].pc = "failed",
                            ![p].errors = IF pass[p].via = "scheduled"
                                          THEN Append(@, ScheduledJobErr) ELSE @]
    /\ UNCHANGED <<staging, checkins, runs>>
    /\ UnchangedConfig

\* the store call of the current step raises: except Exception -> frappe.log_error,
\* then the loop goes on with the next log
CatchAndLog(f) == NextLog([f EXCEPT !.errors = Append(@, ProcessingErr(f, f.pc))])

\* a handler around the insert alone: the failure is logged and the status write
\* that follows the insert still runs
RecordFailsInsertSwallowed(p) ==
    /\ pass[p].pc \in RecordSteps
    /\ pass' = [pass EXCEPT ![p] =
                   IF @.pc = "insert"
                   THEN [@ EXCEPT !.errors = Append(@, ProcessingErr(pass[p], "insert")),
                                  !.pc = "setproc"]
                   ELSE CatchAndLog(@)]
    /\ UNCHANGED <<staging, checkins, runs>>
    /\ UnchangedConfig

\* a handler that undoes the insert when the status write after it raises
RecordFailsRollsBack(p) ==
    /\ pass[p].pc \in RecordSteps
    /\ pass' = [pass EXCEPT ![p] = CatchAndLog(@)]
    /\ checkins' = IF pass[p].pc = "setproc"
                   THEN checkins (-) SetToBag({NewCheckin(pass[p].employee, CurrentLog(p))})
                   ELSE checkins
    /\ UNCHANGED <<staging, runs>>
    /\ UnchangedConfig

RecordFails(p) ==
    /\ pass[p].pc \in RecordSteps
    /\ pass' = [pass EXCEPT ![p] = CatchAndLog(@)]
    /\ UNCHANGED <<staging, checkins, runs>>
    /\ UnchangedConfig

\* frappe.db.commit(); the function ends without a return statement, so the
\* caller gets None
Commit(p) ==
    /\ pass[p].pc = "commit"
    /\ pass' = [pass EXCEPT ![p].commits = @ + 1, ![p].result = None, ![p].pc = "done"]
    /\ UNCHANGED <<staging, checkins, runs>>
    /\ UnchangedConfig

---------------------------------------------------------------------------
(* The loop body as a function of the store: what one serial, failure-free  *)
(* iteration does to (staging, checkins), and a whole pass in a given order *)

ProcessLog(store, log) ==
    LET employee == GetValueEmployee(log.attendance_device_id)
    IN  IF employee # None
        THEN IF Exists(store.checkins, employee, log.timestamp)
             THEN [store EXCEPT !.staging = SetValue(@, log.name, "Duplicate")]
             ELSE [staging |-> SetValue(store.staging, log.name, "Processed"),
                   checkins |-> InsertDoc(store.checkins, NewCheckin(employee, log))]
        ELSE [store EXCEPT !.staging = SetValue(@, log.name, "Ignored")]

RECURSIVE ProcessLogs(_, _)
ProcessLogs(store, logs) ==
    IF logs = <<>> THEN store
    ELSE ProcessLogs(ProcessLog(store, Head(logs)), Tail(logs))

---------------------------------------------------------------------------
(* send_exceptional_report *)

Roles == {"System Manager", "HR Manager"}

ReportStatuses == {"Pending", "Ignored", "Processed"}

Statuses == {"Pending", "Processed", "Duplicate", "Ignored"}

\* rows of tabUser joined with tabHas Role that the store may hold
CandidateUsers ==
    {[email |-> "hr@x", enabled |-> 1, user_type |-> "System User", roles |-> {"HR Manager"}],
     [email |-> "off@x", enabled |-> 0, user_type |-> "System User", roles |-> {"System Manager"}],
     [email |-> "web@x", enabled |-> 1, user_type |-> "Website User", roles |-> {"HR Manager"}],
     [email |-> None, enabled |-> 1, user_type |-> "System User", roles |-> {"System Manager"}],
     [email |-> "emp@x", enabled |-> 1, user_type |-> "System User", roles |-> {"Employee"}]}

\* the query without its u.enabled = 1 condition
GetRecipientsAnyUser(usrs, roles) ==
    {u.email : u \in {v \in usrs : /\ v.user_type = "System User"
                                   /\ v.roles \cap roles # {}
                                   /\ v.email # None}}

\* get_recipients_by_roles(roles): SELECT DISTINCT u.email ... WHERE ...
GetRecipientsByRoles(usrs, roles) ==
    {u.email : u \in {v \in usrs : /\ v.enabled = 1
                                   /\ v.user_type = "System User"
                                   /\ v.roles \cap roles # {}
                                   /\ v.email # None}}

\* the query without its DATE(timestamp) = CURDATE() condition
ReportDataAnyDay(stg, today) ==
    LET rows(st) == {n \in DOMAIN stg : stg[n].status = st}
    IN  {[status |-> st, count |-> Cardinality(rows(st))] :
            st \in {x \in ReportStatuses : rows(x) # {}}}

\* SELECT status, COUNT(*) ... WHERE status IN (...) AND DATE(timestamp) = CURDATE()
\* GROUP BY status: the groups that have a row, each with its count
ReportData(stg, today) ==
    LET rows(st) == {n \in DOMAIN stg : stg[n].status = st /\ DateOf(stg[n].timestamp) = today}
    IN  {[status |-> st, count |-> Cardinality(rows(st))] :
            st \in {x \in ReportStatuses : rows(x) # {}}}

NoReport == [ran |-> FALSE, today |-> None, sent |-> <<>>, communications |-> <<>>,
             errors |-> <<>>, mail_raised |-> FALSE, raised |-> FALSE]

\* try: frappe.sendmail(...) with the exception left to the caller
DispatchUncaught(r, mail, mailFails) ==
    IF mailFails
    THEN [r EXCEPT !.mail_raised = TRUE, !.raised = TRUE]
    ELSE [r EXCEPT !.sent = Append(@, mail)]

\* try: frappe.sendmail(...) except Exception: frappe.log_error(...)
Dispatch(r, mail, mailFails) ==
    IF mailFails
    THEN [r EXCEPT !.mail_raised = TRUE, !.errors = Append(@, "Failed to send email")]
    ELSE [r EXCEPT !.sent = Append(@, mail)]

\* the effects of one call, with CURDATE() = today and frappe.sendmail raising or not
ReportEffects(stg, usrs, sndr, today, mailFails) ==
    LET report_data == ReportData(stg, today)
        recipients == GetRecipientsByRoles(usrs, Roles)
        ran == [NoReport EXCEPT !.ran = TRUE, !.today = today]
        communication == [content |-> report_data, sender |-> sndr,
                          recipients |-> recipients]
        mail == [recipients |-> recipients, sender |-> sndr, message |-> report_data]
    IN  IF report_data = {} THEN ran
        ELSE IF recipients = {}
        THEN [ran EXCEPT !.errors = <<"No recipients found for the exceptional report">>]
        ELSE IF sndr = None
        THEN [ran EXCEPT !.errors = <<"No default sender email is configured.">>]
        ELSE Dispatch([ran EXCEPT !.communications = <<communication>>], mail, mailFails)

SendExceptionalReport(today, mailFails) ==
    /\ report' = ReportEffects(staging, users, sender, today, mailFails)
    /\ UNCHANGED <<staging, checkins, pass, runs, users, sender>>

\* communication.insert(ignore_permissions=True) raises: it is outside the try
\* block, so the exception leaves send_exceptional_report before any mail is sent
CommunicationInsertFails(today) ==
    /\ ReportData(staging, today) # {}
    /\ GetRecipientsByRoles(users, Roles) # {}
    /\ sender # None
    /\ report' = [NoReport EXCEPT !.ran = TRUE, !.today = today, !.raised = TRUE]
    /\ UNCHANGED <<staging, checkins, pass, runs, users, sender>>

---------------------------------------------------------------------------
(* Specifications *)

InitWith(rows, present) ==
    /\ staging \in SeqsUpTo(rows, MaxLogs)
    /\ checkins \in {SetToBag(S) : S \in SUBSET present}
    /\ pass = [p \in Workers |-> IdlePass]
    /\ runs = 0
    /\ users = {}
    /\ sender = None
    /\ report = NoReport

Init == InitWith(PendingRows, InitialCheckins)

InitIn == InitWith(PendingRowsIn, InitialCheckinsE1)

\* passes run one after another on one worker, no store call fails
Next ==
    \E p \in {"w1"} :
        \/ Enqueue(p)
        \/ ExecuteScheduledJob(p)
        \/ ReadPending(p)
        \/ Lookup(p)
        \/ DuplicateCheck(p)
        \/ SetDuplicate(p)
        \/ InsertCheckin(p)
        \/ SetProcessed(p)
        \/ SetIgnored(p)
        \/ Commit(p)

Spec == Init /\ [][Next]_vars

\* passes run one after another on one worker, any store call may fail
NextFail ==
    \E p \in {"w1"} :
        \/ Enqueue(p)
        \/ ExecuteScheduledJob(p)
        \/ ReadPending(p)
        \/ ReadPendingFails(p)
        \/ Lookup(p)
        \/ DuplicateCheck(p)
        \/ SetDuplicate(p)
        \/ InsertCheckin(p)
        \/ SetProcessed(p)
        \/ SetIgnored(p)
        \/ RecordFails(p)
        \/ Commit(p)

SpecFail == InitIn /\ [][NextFail]_vars

\* two workers of the 'long' queue run passes that may overlap
NextConc ==
    \E p \in Workers :
        \/ Enqueue(p)
        \/ ReadPending(p)
        \/ Lookup(p)
        \/ DuplicateCheck(p)
        \/ SetDuplicate(p)
        \/ InsertCheckin(p)
        \/ SetProcessed(p)
        \/ SetIgnored(p)
        \/ Commit(p)

SpecConc == InitIn /\ [][NextConc]_vars

\* the "Hourly" Scheduled Job Type of setup_scheduled_job: the trigger fires again
\* and again; runs counts the passes up to MaxRuns and then stays
HourlyTrigger(p) ==
    /\ Free(p)
    /\ pass' = [pass EXCEPT ![p] = [IdlePass EXCEPT !.pc = "read", !.via = "scheduled"]]
    /\ runs' = IF runs < MaxRuns THEN runs + 1 ELSE runs
    /\ UNCHANGED <<staging, checkins>>
    /\ UnchangedConfig

\* store calls fail only in the passes before the MaxRuns-th: processing
\* eventually stops failing
RecordFailsEarly(p) == runs < MaxRuns /\ RecordFails(p)

ReadPendingFailsEarly(p) == runs < MaxRuns /\ ReadPendingFails(p)

NextLive ==
    \E p \in {"w1"} :
        \/ HourlyTrigger(p)
        \/ ReadPending(p)
        \/ ReadPendingFailsEarly(p)
        \/ Lookup(p)
        \/ DuplicateCheck(p)
        \/ SetDuplicate(p)
        \/ InsertCheckin(p)
        \/ SetProcessed(p)
        \/ SetIgnored(p)
        \/ RecordFailsEarly(p)
        \/ Commit(p)

\* the scheduler keeps triggering and a started pass keeps running
SpecLive == InitIn /\ [][NextLive]_vars /\ WF_vars(NextLive)

\* the upstream ingestion creates a staged row, in state Pending
Ingest(row) ==
    /\ Len(staging) < MaxLogs
    /\ staging' = Append(staging, row)
    /\ UNCHANGED <<checkins, pass, runs>>
    /\ UnchangedConfig

InitUpstream ==
    /\ staging = <<>>
    /\ checkins \in {SetToBag(S) : S \in SUBSET InitialCheckinsE1}
    /\ pass = [p \in Workers |-> IdlePass]
    /\ runs = 0
    /\ users = {}
    /\ sender = None
    /\ report = NoReport

\* passes of the one queue worker while the upstream ingestion adds rows
NextUpstream ==
    \/ \E p \in {"w1"} :
          \/ Enqueue(p)
          \/ ReadPending(p)
          \/ Lookup(p)
          \/ DuplicateCheck(p)
          \/ SetDuplicate(p)
          \/ InsertCheckin(p)
          \/ SetProcessed(p)
          \/ SetIgnored(p)
          \/ Commit(p)
    \/ \E row \in PendingRowsIn : Ingest(row)

SpecUpstream == InitUpstream /\ [][NextUpstream]_vars

\* the daily report over a store in any state the passes can leave it in
ReportRows ==
    {StagingRow("A100", t, "IN", "D1", st) : t \in Timestamps, st \in Statuses}

InitReport ==
    /\ staging \in SeqsUpTo(ReportRows, MaxLogs)
    /\ checkins = EmptyBag
    /\ pass = [p \in Workers |-> IdlePass]
    /\ runs = 0
    /\ users \in SUBSET CandidateUsers
    /\ sender \in {None, "erp@x"}
    /\ report = NoReport

NextReport ==
    \E today \in Days :
        \/ \E mailFails \in BOOLEAN : SendExceptionalReport(today, mailFails)
        \/ CommunicationInsertFails(today)

SpecReport == InitReport /\ [][NextReport]_vars

---------------------------------------------------------------------------
(* Vocabulary of the properties.  The serial specifications run every pass   *)
(* on worker w1.                                                              *)

Serial == pass["w1"]

\* positions of the snapshot whose iteration has ended
Handled == {k \in DOMAIN Serial.unsynced_logs : k < Serial.i}

NameAt(k) == Serial.unsynced_logs[k].name

\* the employees whose attendance_device_id is the one of row n
Matching(n) == {e \in Employees : EmployeeTable[e] = staging[n].attendance_device_id}

HadCheckinAtStart(n) ==
    \E c \in BagToSet(Serial.start.checkins) :
        c.employee \in Matching(n) /\ c.time = staging[n].timestamp

\* the checkins this pass has inserted while processing row n
CreatedFor(n) == {j \in DOMAIN Serial.created : Serial.created[j].name = n}

\* another row of the same pass got a checkin with row n's employee and timestamp
CreatedByAnother(n) ==
    \E j \in DOMAIN Serial.created :
        /\ Serial.created[j].name # n
        /\ Serial.created[j].doc.employee \in Matching(n)
        /\ Serial.created[j].doc.time = staging[n].timestamp

\* the processing of row n raised in this pass
Failed(n) == \E j \in DOMAIN Serial.errors : Serial.errors[j].name = n

SameKey(m, n) ==
    /\ staging[m].attendance_device_id = staging[n].attendance_device_id
    /\ staging[m].timestamp = staging[n].timestamp

\* C1: a pending row whose attendance_device_id matches no employee has status
\* Ignored once its iteration has ended without raising, and the pass inserted no
\* checkin for it; this in every pass, also one in which other rows raise.
C1_UnmatchedIgnored ==
    \A k \in Handled :
        (Matching(NameAt(k)) = {} /\ ~Failed(NameAt(k))) =>
            /\ staging[NameAt(k)].status = "Ignored"
            /\ CreatedFor(NameAt(k)) = {}
            /\ BagCardinality(checkins) =
                   BagCardinality(Serial.start.checkins) + Len(Serial.created)

C1_Witness ==
    /\ Serial.pc = "done"
    /\ Len(Serial.unsynced_logs) = 2
    /\ Matching(NameAt(2)) = {}
    /\ staging[NameAt(2)].status = "Ignored"
    /\ Serial.created # <<>>

\* C2: a pending row whose employee already has a checkin at the row's timestamp,
\* from before the pass or inserted earlier in the pass for another row, has status
\* Duplicate once its iteration has ended without raising, is not Processed whether
\* it raised or not, and the pass inserted no checkin for it.
C2_DuplicateNotProcessed ==
    \A k \in Handled :
        (Matching(NameAt(k)) # {} /\ (HadCheckinAtStart(NameAt(k)) \/ CreatedByAnother(NameAt(k)))) =>
            /\ ~Failed(NameAt(k)) => staging[NameAt(k)].status = "Duplicate"
            /\ staging[NameAt(k)].status # "Processed"
            /\ CreatedFor(NameAt(k)) = {}

C2_Witness ==
    /\ Serial.pc = "done"
    /\ \E k \in Handled :
         /\ CreatedByAnother(NameAt(k))
         /\ ~HadCheckinAtStart(NameAt(k))
         /\ staging[NameAt(k)].status = "Duplicate"

\* C3: a pending row that matches an employee, with no checkin for (employee,
\* timestamp) before the pass and no earlier row of the pass with the same employee
\* and timestamp, has status Processed once its iteration has ended, and the pass
\* inserted exactly one checkin for it, with employee, time = timestamp,
\* log_type = punch_type and device_id = device_id of the row.
C3_ProcessedOneCheckin ==
    \A k \in Handled :
        LET n == NameAt(k)
        IN  (/\ Matching(n) # {}
             /\ ~HadCheckinAtStart(n)
             /\ \A j \in 1..(k-1) : ~SameKey(NameAt(j), n)) =>
                /\ staging[n].status = "Processed"
                /\ Cardinality(CreatedFor(n)) = 1
                /\ \A j \in CreatedFor(n) :
                     LET doc == Serial.created[j].doc
                     IN  /\ doc.employee \in Matching(n)
                         /\ doc.time = staging[n].timestamp
                         /\ doc.log_type = staging[n].punch_type
                         /\ doc.device_id = staging[n].device_id
                         /\ CopiesIn(doc, checkins) >= 1
                /\ BagCardinality(checkins) =
                       BagCardinality(Serial.start.checkins) + Len(Serial.created)

C3_Witness ==
    /\ Serial.pc = "done"
    /\ \E k \in Handled :
         /\ staging[NameAt(k)].status = "Processed"
         /\ staging[NameAt(k)].punch_type = "OUT"
         /\ \E c \in BagToSet(checkins) : c.log_type = "OUT" /\ c.device_id = "D1"

\* C4: passes run one after another, store calls may fail at any step: no two
\* checkins have the same (employee, time).
C4_UniqueCheckin ==
    /\ \A c \in BagToSet(checkins) : CopiesIn(c, checkins) = 1
    /\ \A c, d \in BagToSet(checkins) :
         (c.employee = d.employee /\ c.time = d.time) => c = d

C4_Witness ==
    /\ runs = 2
    /\ Serial.pc = "done"
    /\ Serial.created # <<>>
    /\ BagCardinality(checkins) >= 2
    /\ \E n \in Names : staging[n].status = "Pending"

\* C5: after a failure-free pass has ended no row is Pending, every later pass
\* reads an empty pending set, and no step after the end of the first pass changes
\* a status or the checkins.
C5_SecondRunNoOp ==
    /\ [](Serial.pc = "done" => \A n \in Names : staging[n].status # "Pending")
    /\ []((runs >= 2 /\ Serial.pc # "read") => Serial.unsynced_logs = <<>>)
    /\ [][(runs >= 2 \/ Serial.pc = "done") =>
              (staging' = staging /\ checkins' = checkins)]_vars

C5_Witness ==
    /\ runs = 2
    /\ Serial.pc = "done"
    /\ Serial.commits = 1
    /\ \E n \in Names : staging[n].status = "Processed"
    /\ \E n \in Names : staging[n].status = "Duplicate"

\* the pass of w1 has left its loop
LoopEnded == Serial.pc \in {"commit", "done"}

Store == [staging |-> staging, checkins |-> checkins]

\* the snapshot of the pass in every order
Reorderings ==
    {[i \in DOMAIN o |-> Serial.unsynced_logs[o[i]]] :
        o \in Orders(DOMAIN Serial.unsynced_logs)}

\* position k comes after a row with the same attendance_device_id and timestamp
\* whose processing raised before its checkin was inserted
AfterFailedTwin(k) ==
    \E j \in 1..(k-1), e \in DOMAIN Serial.errors :
        /\ Serial.errors[e].name = NameAt(j)
        /\ Serial.errors[e].step \in {"lookup", "dupcheck", "insert"}
        /\ SameKey(NameAt(j), NameAt(k))

\* what the pass would have left without any failure, in the order it ran
WithoutFailure == ProcessLogs(Serial.start, Serial.unsynced_logs)

\* C6 as stated: at the end of the loop every row whose processing raised is logged
\* and has the status it had, and every other row of the pass has the status it
\* would have had without the failure.
C6_AsStated ==
    LoopEnded =>
        \A k \in DOMAIN Serial.unsynced_logs :
            LET n == NameAt(k)
            IN  /\ Failed(n) => staging[n].status = Serial.start.staging[n].status
                /\ staging[n].status = "Pending" => Failed(n)
                /\ ~Failed(n) => staging[n].status = WithoutFailure.staging[n].status

\* C6 as amended: the same, except that a row that follows a row with the same
\* attendance_device_id and timestamp whose processing raised before its checkin was
\* inserted may be Processed where it would have been Duplicate.
C6_FailureIsolated ==
    /\ Serial.pc # "failed" => \A j \in DOMAIN Serial.errors :
                                  Serial.errors[j].title = "Biometric Log Processing Error"
    /\ LoopEnded =>
        \A k \in DOMAIN Serial.unsynced_logs :
            LET n == NameAt(k)
            IN  /\ Failed(n) => staging[n].status = Serial.start.staging[n].status
                /\ staging[n].status = "Pending" => Failed(n)
                /\ ~Failed(n) =>
                     \/ staging[n].status = WithoutFailure.staging[n].status
                     \/ /\ AfterFailedTwin(k)
                        /\ staging[n].status = "Processed"
                        /\ WithoutFailure.staging[n].status = "Duplicate"

C6_Witness ==
    /\ Serial.pc = "done"
    /\ Len(Serial.unsynced_logs) = 2
    /\ Failed(NameAt(1))
    /\ ~Failed(NameAt(2))
    /\ ~SameKey(NameAt(1), NameAt(2))
    /\ staging[NameAt(1)].status = "Pending"
    /\ staging[NameAt(2)].status = "Processed"

\* the rows of the pass that share a matched employee and a timestamp with row n,
\* when no checkin for them existed before the pass
Contenders(n) ==
    IF Matching(n) = {} \/ HadCheckinAtStart(n) THEN {}
    ELSE {m \in {NameAt(k) : k \in DOMAIN Serial.unsynced_logs} : SameKey(m, n)}

Keys(chk) == {<<c.employee, c.time>> : c \in BagToSet(chk)}

\* the position of row n in the order logs
PositionIn(logs, n) == CHOOSE k \in DOMAIN logs : logs[k].name = n

\* C7 as stated: the statuses and the checkins at the end of a failure-free pass are
\* those that every other order of the same pending set produces.
C7_AsStated ==
    Serial.pc = "done" => \A logs \in Reorderings : ProcessLogs(Serial.start, logs) = Store

\* C7 as amended: for serial processing, every order produces the same set of
\* (employee, time) pairs of checkins and the same status of every row, except among
\* rows that share a matched employee and a timestamp with no checkin before the
\* pass: of those, the one processed first ends Processed and the others Duplicate.
C7_OrderUpToContenders ==
    Serial.pc = "done" =>
        /\ Store = ProcessLogs(Serial.start, Serial.unsynced_logs)
        /\ \A logs \in Reorderings :
             LET other == ProcessLogs(Serial.start, logs)
             IN  /\ Keys(other.checkins) = Keys(checkins)
                 /\ BagCardinality(other.checkins) = BagCardinality(checkins)
                 /\ \A k \in DOMAIN logs :
                      LET n == logs[k].name
                      IN  IF Cardinality(Contenders(n)) <= 1
                          THEN other.staging[n].status = staging[n].status
                          ELSE other.staging[n].status =
                                 IF \A m \in Contenders(n) :
                                        PositionIn(logs, n) <= PositionIn(logs, m)
                                 THEN "Processed" ELSE "Duplicate"

C7_Witness ==
    /\ Serial.pc = "done"
    /\ Len(Serial.unsynced_logs) = 2
    /\ Cardinality(Contenders(NameAt(1))) = 2
    /\ staging[NameAt(1)].status = "Processed"
    /\ staging[NameAt(2)].status = "Duplicate"

\* C8: no step changes the status of a row that is not Pending, also when two
\* passes overlap.
C8_TerminalStatus ==
    [][\A n \in Names : staging[n].status # "Pending" =>
                            staging'[n].status = staging[n].status]_vars

\* C9: an exception leaves the pass only from the read of the pending set, before
\* any row is processed and without a commit; execute_scheduled_job then logs
\* exactly one "Scheduled Job Error"; a pass in which the processing of a row raised
\* is never left by an exception.
C9_OnlyReadFailureEscapes ==
    /\ Serial.pc = "failed" =>
         /\ Serial.unsynced_logs = <<>>
         /\ Serial.commits = 0
         /\ Serial.created = <<>>
         /\ Serial.via = "scheduled" => Serial.errors = <<ScheduledJobErr>>
         /\ Serial.via = "enqueue" => Serial.errors = <<>>
    /\ (\E n \in Names : Failed(n)) =>
         /\ Serial.pc # "failed"
         /\ \A j \in DOMAIN Serial.errors : Serial.errors[j] # ScheduledJobErr

C9_Witness ==
    /\ runs = 2
    /\ Serial.pc = "failed"
    /\ Serial.via = "scheduled"
    /\ Serial.errors = <<ScheduledJobErr>>
    /\ \E n \in Names : staging[n].status = "Pending"
    /\ \E n \in Names : staging[n].status = "Processed"

\* rows of today that the report counts
ReportedToday ==
    {n \in Names : /\ staging[n].status \in {"Pending", "Ignored", "Processed"}
                   /\ DateOf(staging[n].timestamp) = report.today}

\* C10: a report run when no row of today is Pending, Ignored or Processed sends no
\* email, inserts no Communication and logs no error.
C10_NoDataNoEffect ==
    (report.ran /\ ReportedToday = {}) =>
        /\ report.sent = <<>>
        /\ report.communications = <<>>
        /\ report.errors = <<>>

C10_Witness ==
    /\ report.ran
    /\ ReportedToday = {}
    /\ \E n \in Names : staging[n].status = "Duplicate" /\ DateOf(staging[n].timestamp) = report.today
    /\ \E n \in Names : staging[n].status = "Processed"
    /\ GetRecipientsByRoles(users, Roles) # {}
    /\ sender # None
    /\ report.sent = <<>>

\* the users the report may write to
Resolvable ==
    {u \in users : /\ u.enabled = 1
                   /\ u.user_type = "System User"
                   /\ u.roles \cap {"System Manager", "HR Manager"} # {}
                   /\ u.email # None}

\* C11: a report run with data of today and no resolvable recipient sends no email
\* and logs exactly one error; an email is sent only when data, a recipient and a
\* default sender are all present, and one call sends at most one email.
C11_MailNeedsAll ==
    report.ran =>
        /\ (ReportedToday # {} /\ Resolvable = {}) =>
              /\ report.sent = <<>>
              /\ report.communications = <<>>
              /\ Len(report.errors) = 1
        /\ Len(report.sent) <= 1
        /\ report.sent # <<>> =>
              /\ ReportedToday # {}
              /\ Resolvable # {}
              /\ sender # None
              /\ report.sent[1].recipients = {u.email : u \in Resolvable}

C11_Witness ==
    /\ report.ran
    /\ ReportedToday # {}
    /\ Resolvable = {}
    /\ users # {}
    /\ sender # None
    /\ Len(report.errors) = 1

\* C12: when frappe.sendmail raises, the failure is logged once, no exception
\* leaves send_exceptional_report, and the Communication inserted before the send
\* is still there.
C12_MailFailureCaught ==
    (report.ran /\ report.mail_raised) =>
        /\ ~report.raised
        /\ report.errors = <<"Failed to send email">>
        /\ Len(report.communications) = 1
        /\ report.sent = <<>>

C12_Witness ==
    /\ report.ran
    /\ report.mail_raised
    /\ Len(report.communications) = 1
    /\ ~report.raised

\* the rows of the pass of w1 that ended with a status, and those that raised
EndedAs(st) ==
    {k \in DOMAIN Serial.unsynced_logs : ~Failed(NameAt(k)) /\ staging[NameAt(k)].status = st}

Raised == {k \in DOMAIN Serial.unsynced_logs : Failed(NameAt(k))}

\* C13: a pass that has ended has returned the number of its pending rows per
\* outcome: Processed, Duplicate, Ignored and failed.
C13_CountsReturned ==
    Serial.pc = "done" =>
        IF Serial.result = None THEN FALSE
        ELSE Serial.result = [Processed |-> Cardinality(EndedAs("Processed")),
                              Duplicate |-> Cardinality(EndedAs("Duplicate")),
                              Ignored |-> Cardinality(EndedAs("Ignored")),
                              failed |-> Cardinality(Raised)]

\* worker p has inserted a checkin for row n in its current pass
InsertedBy(p, n) == \E j \in DOMAIN pass[p].created : pass[p].created[j].name = n

\* C14: a worker that has passed its duplicate check can always insert, whatever
\* the other worker has inserted meanwhile: no lock and no uniqueness test stands
\* between the check and the insert, so two overlapping passes can both insert a
\* checkin for the same row.
C14_InsertUnguarded ==
    \A p \in Workers : pass[p].pc = "insert" => ENABLED InsertCheckin(p)

C14_Witness ==
    \E n \in Names :
        /\ InsertedBy("w1", n)
        /\ InsertedBy("w2", n)
        /\ \E c \in BagToSet(checkins) :
             /\ c.time = staging[n].timestamp
             /\ c.employee \in Matching(n)
             /\ CopiesIn(c, checkins) = 2

\* C15: every pass reads all rows that are Pending, those left Pending by a failed
\* attempt included; when store calls stop failing and passes keep being
\* triggered, every row eventually is Processed, Duplicate or Ignored, and stays so.
C15_RetriedUntilSettled ==
    /\ [][(pass["w1"].pc = "read" /\ pass'["w1"].pc \in {"lookup", "commit"}) =>
             {pass'["w1"].unsynced_logs[k].name : k \in DOMAIN pass'["w1"].unsynced_logs}
                 = {n \in Names : staging[n].status = "Pending"}]_vars
    /\ <>[](\A n \in Names : staging[n].status \in {"Processed", "Duplicate", "Ignored"})

C15_Witness ==
    /\ runs >= 2
    /\ Serial.pc = "done"
    /\ Serial.unsynced_logs # <<>>
    /\ Serial.errors = <<>>
    /\ Len(staging) = 2
    /\ \A n \in Names : /\ Serial.start.staging[n].status = "Pending"
                        /\ staging[n].status # "Pending"

\* C16: a pass has committed once when it has ended, with every row of its pending
\* set behind it (rows whose processing raised included), has not committed while it
\* reads or processes rows, and has not committed when the read of the pending set
\* raised.
C16_CommitOnceAtEnd ==
    /\ Serial.pc = "done" =>
         /\ Serial.commits = 1
         /\ Serial.i = Len(Serial.unsynced_logs) + 1
    /\ Serial.pc \in ({"read", "commit"} \cup RecordSteps) => Serial.commits = 0
    /\ Serial.pc = "failed" => Serial.commits = 0

C16_Witness ==
    /\ Serial.pc = "done"
    /\ Serial.commits = 1
    /\ Len(Serial.unsynced_logs) = 2
    /\ Len(Serial.errors) = 1

\* C17: every step leaves each checkin in the store as it was and adds at most one;
\* a pass inserts at most one checkin per row of its pending set.
C17_CheckinsOnlyGrow ==
    /\ [][/\ checkins \sqsubseteq checkins'
          /\ BagCardinality(checkins') <= BagCardinality(checkins) + 1]_vars
    /\ [](/\ \A j \in DOMAIN Serial.created :
               \E k \in DOMAIN Serial.unsynced_logs : NameAt(k) = Serial.created[j].name
          /\ \A j, k \in DOMAIN Serial.created :
               Serial.created[j].name = Serial.created[k].name => j = k)

C17_Witness ==
    /\ Serial.pc = "done"
    /\ Len(Serial.created) = 1
    /\ Len(Serial.unsynced_logs) = 2
    /\ BagCardinality(checkins) = 2
    /\ \E c \in InitialCheckins : CopiesIn(c, checkins) = 1

\* C18: every row with status Processed has a checkin of the employee matched by
\* its attendance_device_id at its timestamp, in every state of passes run one after
\* another with store calls failing at any step.
C18_ProcessedHasCheckin ==
    \A n \in Names :
        staging[n].status = "Processed" =>
            \E c \in BagToSet(checkins) :
                c.employee \in Matching(n) /\ c.time = staging[n].timestamp

C18_Witness ==
    /\ Serial.pc = "done"
    /\ \E j \in DOMAIN Serial.errors : Serial.errors[j].step = "insert"
    /\ \E n \in Names : staging[n].status = "Processed"
    /\ \E n \in Names : staging[n].status = "Pending"

\* the checkins of the employee matched by row n at the timestamp of row n
CheckinsOf(n) ==
    {c \in BagToSet(checkins) : c.employee \in Matching(n) /\ c.time = staging[n].timestamp}

\* C19: a row whose status write raised after its checkin was inserted stays Pending
\* and its checkin stays in the store, once; a pass that finds a Pending row with
\* such a checkin inserts nothing for it and marks it Duplicate, never Processed.
C19_OrphanCheckinBecomesDuplicate ==
    /\ \A j \in DOMAIN Serial.errors :
         Serial.errors[j].step = "setproc" =>
            LET n == Serial.errors[j].name
            IN  /\ staging[n].status = "Pending"
                /\ Cardinality(CheckinsOf(n)) = 1
                /\ \A c \in CheckinsOf(n) : CopiesIn(c, checkins) = 1
                /\ Cardinality(CreatedFor(n)) = 1
    /\ \A k \in Handled :
         LET n == NameAt(k)
         IN  (Serial.start.staging[n].status = "Pending" /\ HadCheckinAtStart(n)) =>
                /\ staging[n].status \in {"Duplicate", "Pending"}
                /\ staging[n].status = "Pending" => Failed(n)
                /\ CreatedFor(n) = {}
                /\ Cardinality(CheckinsOf(n)) = 1
                /\ \A c \in CheckinsOf(n) : CopiesIn(c, checkins) = 1

\* the only row of the store is Duplicate and the only checkin is the one a pass
\* inserted for it: its first pass raised at the status write
C19_Witness ==
    /\ runs = 2
    /\ Serial.pc = "done"
    /\ Len(staging) = 1
    /\ staging[1].status = "Duplicate"
    /\ Serial.start.staging[1].status = "Pending"
    /\ checkins = SetToBag({[employee |-> "E1", time |-> staging[1].timestamp,
                             log_type |-> staging[1].punch_type,
                             device_id |-> staging[1].device_id]})

\* the rows worker p read as Pending at the start of its current pass
SnapshotNames(p) == {pass[p].unsynced_logs[k].name : k \in DOMAIN pass[p].unsynced_logs}

\* C20: a step of a pass changes no row but rows of the snapshot the pass read,
\* which are the rows that were Pending at the read; rows that became Pending
\* after the read (created by the upstream ingestion) and rows that were not
\* Pending at it are left as they are, and the pass adds and removes no row.
C20_WritesOnlySnapshot ==
    [][\A p \in Workers :
          pass'[p] # pass[p] =>
             /\ DOMAIN staging' = DOMAIN staging
             /\ \A n \in DOMAIN staging :
                  staging'[n] # staging[n] =>
                     /\ n \in SnapshotNames(p)
                     /\ n \in DOMAIN pass[p].start.staging
                     /\ pass[p].start.staging[n].status = "Pending"]_vars

C20_Witness ==
    \E p \in Workers :
        /\ pass[p].pc = "done"
        /\ Len(pass[p].unsynced_logs) = 1
        /\ Len(staging) = 2
        /\ Len(pass[p].start.staging) = 1
        /\ staging[1].status = "Processed"
        /\ staging[2].status = "Pending"
        /\ staging[2].attendance_device_id = staging[1].attendance_device_id

====
